---- MODULE Spec2Model ----
(***************************************************************************)
(* The scrape orchestrator of prometheus-mssql-exporter: the GET /metrics  *)
(* handler of src/src/index.js (lines 125-249, the version that the file   *)
(* ends with), its helpers connect, collect and measure, and the mapping   *)
(* functions of the collector catalogue (getMetrics).                      *)
(*                                                                         *)
(* One action is one turn of the Node.js event loop: a callback runs to    *)
(* completion together with the promise reactions (microtasks) it          *)
(* triggers.  The database driver (connect, query, close) is the           *)
(* environment: its outcomes are chosen nondeterministically.              *)
(***************************************************************************)
EXTENDS Integers, Sequences, FiniteSets, TLC

\* ------------------------------------------------------------------ bounds
\* number of GET /metrics requests the environment issues
MaxScrapes == 2
\* the handler invocations that can be in flight at once; an invocation that
\* is over leaves its place to a later request
Scrapes == {1, 2}
\* the numbers a cell of a query result is drawn from
Values == {1, 2}

\* a cell that is not a number (SQL NULL): Gauge.set throws a TypeError on it
Null == 0 - 1

\* ------------------------------------------------------------ configuration
\* config.connectStrings: the server of each configured target, in order
connectStrings == <<"a", "b">>

Targets == 1..Len(connectStrings)

Hosts == {connectStrings[t] : t \in Targets}

\* Object.entries(entries): the collectors of the catalogue, in the order of
\* the object getMetrics returns.  Two of its 22 collectors are modelled: the
\* availability collector, which writes one gauge from the first cell of the
\* first row, and mssql_buffer_manager, which writes five gauges in a row.
entries == <<"mssql_up", "mssql_buffer_manager">>

Collectors == {entries[i] : i \in 1..Len(entries)}

\* a larger part of the catalogue, in the same order: it adds a collector
\* that maps the first cell of the first row to one gauge, as mssql_up does,
\* and one of the three query-store collectors
catalogue ==
  <<"mssql_up", "mssql_deadlocks", "mssql_buffer_manager",
    "mssql_most_exec_query">>

CatalogueCollectors == {catalogue[i] : i \in 1..Len(catalogue)}

\* the gauges a collector declares (its metrics object)
metrics(c) ==
  CASE c = "mssql_up" -> {"mssql_up"}
    [] c = "mssql_deadlocks" -> {"mssql_deadlocks"}
    [] c = "mssql_most_exec_query" -> {"mssql_total_execution_count"}
    [] c = "mssql_buffer_manager" ->
         {"mssql_page_read_total", "mssql_page_write_total",
          "mssql_page_life_expectancy", "mssql_lazy_write_total",
          "mssql_page_checkpoint_total"}

\* labelNames of the Gauge declaration of instrument g
labelNames(g) ==
  CASE g = "mssql_total_execution_count" ->
         {"database", "query_id", "query_text_id", "query_sql_text"}
    [] OTHER -> {"host"}

\* the keys of the label object that the mapping function of collector c
\* passes to the set call of its gauge g
setLabels(c, g) ==
  CASE c = "mssql_most_exec_query" ->
         {"host", "database", "query_id", "query_text_id", "query_sql_text"}
    [] OTHER -> {"host"}

\* ------------------------------------------------------------------- store
\* The prom-client register: a series is <<gauge name, host>>; the store is a
\* function from the series that have a value to that value.
EmptyStore == [k \in {} |-> 0]

Has(st, k) == k \in DOMAIN st

\* mutant of SetValue: a series that has a value keeps it
SetValueKeep(st, k, v) ==
  [x \in (DOMAIN st) \cup {k} |-> IF x \in DOMAIN st THEN st[x] ELSE v]

\* mutant of SetValue: the value is added to the one the series has
SetValueInc(st, k, v) ==
  [x \in (DOMAIN st) \cup {k} |->
     IF x = k THEN (IF k \in DOMAIN st THEN st[k] + v ELSE v) ELSE st[x]]

\* hashMap entry of one series set to v (last write wins)
SetValue(st, k, v) == [x \in (DOMAIN st) \cup {k} |-> IF x = k THEN v ELSE st[x]]

IsNumber(v) == v >= 0

Min(S) == CHOOSE x \in S : \A y \in S : x <= y

\* A run of gauge.set calls in program order, sets[i] = <<series, value>>.
\* Gauge.set throws on a value that is not a number: the calls before the
\* first such value have taken effect, the ones after it are never made.
Applied(sets) ==
  LET bad == {i \in 1..Len(sets) : ~IsNumber(sets[i][2])}
  IN  IF bad = {} THEN sets ELSE SubSeq(sets, 1, Min(bad) - 1)

Throws(sets) == \E i \in 1..Len(sets) : ~IsNumber(sets[i][2])

\* mutant of SetAll: only the first set call of a run has taken effect
SetAllFirst(st, sets) ==
  IF sets = <<>> THEN st ELSE SetValue(st, sets[1][1], sets[1][2])

RECURSIVE SetAll(_, _)
SetAll(st, sets) ==
  IF sets = <<>> THEN st
  ELSE SetAll(SetValue(st, sets[1][1], sets[1][2]), Tail(sets))

\* ------------------------------------------------------- mapping functions
\* mutant of mssql_up_collect: the gauge is set to 0 when the cell is 1
mssql_up_collectNegated(rows, host) ==
  << <<<<"mssql_up", host>>, 1 - rows[1][1]>> >>

\* mutant of mssql_up_collect: the host label is the first configured server
mssql_up_collectFirstHost(rows, host) ==
  << <<<<"mssql_up", connectStrings[1]>>, rows[1][1]>> >>

\* mssql_up.collect: rows[0][0] to mssql_up{host}
mssql_up_collect(rows, host) == << <<<<"mssql_up", host>>, rows[1][1]>> >>

\* mssql_buffer_manager.collect: five gauges from the cells of rows[0]
mssql_buffer_manager_collect(rows, host) ==
  LET row == rows[1]
  IN  << <<<<"mssql_page_read_total", host>>, row[1]>>,
         <<<<"mssql_page_write_total", host>>, row[2]>>,
         <<<<"mssql_page_life_expectancy", host>>, row[3]>>,
         <<<<"mssql_page_checkpoint_total", host>>, row[5]>>,
         <<<<"mssql_lazy_write_total", host>>, row[4]>> >>

\* mutant of mssql_deadlocks_collect: the number of rows is set, not the cell
mssql_deadlocks_collectCount(rows, host) ==
  << <<<<"mssql_deadlocks", host>>, Len(rows)>> >>

\* mssql_deadlocks.collect: rows[0][0] to mssql_deadlocks{host}
mssql_deadlocks_collect(rows, host) ==
  << <<<<"mssql_deadlocks", host>>, rows[1][1]>> >>

\* a statement of a mapping function that throws a TypeError: like a set call
\* of a value that is not a number, it ends the run of calls
TypeError == <<<<"TypeError", "">>, Null>>

\* the value of a parameter for which the caller passes no argument
Undefined == "undefined"

\* mssql_most_exec_query.collect(rows, metrics, config, host), which measure
\* calls with three arguments: its first statement reads
\* config.connect.options.database, which throws when config is a string;
\* otherwise it sets one sample per row from the fourth cell, with the host
\* label taken from the fourth parameter
mssql_most_exec_query_collect(rows, config) ==
  IF config \in STRING
  THEN <<TypeError>>
  ELSE [i \in 1..Len(rows) |->
          <<<<"mssql_total_execution_count", Undefined>>, rows[i][4]>>]

\* collector.collect(result.recordset, collector.metrics, server): the set
\* calls the mapping function makes, in order
collectorCollect(c, rows, host) ==
  CASE c = "mssql_up" -> mssql_up_collect(rows, host)
    [] c = "mssql_buffer_manager" -> mssql_buffer_manager_collect(rows, host)
    [] c = "mssql_deadlocks" -> mssql_deadlocks_collect(rows, host)
    [] c = "mssql_most_exec_query" -> mssql_most_exec_query_collect(rows, host)

\* --------------------------------------------------------- query outcomes
\* rows of five cells: all cells v, or all v but the third one, which is NULL
BufferRows ==
  {[i \in 1..5 |-> v] : v \in Values}
    \cup {[i \in 1..5 |-> IF i = 3 THEN Null ELSE v] : v \in Values}

\* the record sets a query of collector c can return: SELECT 1 returns the
\* row [1]; the buffer manager query returns no row or one row
Recordsets(c) ==
  CASE c = "mssql_up" -> {<< <<1>> >>}
    [] c = "mssql_buffer_manager" -> {<<>>} \cup {<<r>> : r \in BufferRows}
    [] c = "mssql_deadlocks" -> {<<>>} \cup {<< <<v>> >> : v \in Values}
    [] c = "mssql_most_exec_query" ->
         {<<>>} \cup {<<[i \in 1..4 |-> v]>> : v \in Values}

\* a query settles with an error or with a record set
QueryResults(c) ==
  {[err |-> TRUE, recordset |-> <<>>]}
    \cup {[err |-> FALSE, recordset |-> rs] : rs \in Recordsets(c)}

\* ------------------------------------------------------------------- state
VARIABLES
  store,      \* client.register: the value of every series that has one
  served,     \* number of /metrics requests received so far
  hstate,     \* per scrape, where the /metrics handler is
  idx,        \* per scrape, the target whose connect the loop awaits
  conn,       \* per scrape and target, the state of its connection
  meas,       \* per scrape, target and collector, the state of its measure
  rendered,   \* per scrape, the store as res.send rendered it
  writes,     \* per scrape and target, the <<series, value>> set calls made
  closeCalls, \* per scrape and target, how often connection.close() was called
  overwritten, \* per scrape, the targets whose connect failed in it and whose
              \* mssql_up another scrape's collector has set since, before the
              \* response of this scrape
  pool,       \* per scrape and target, the ConnectionPool objects that the
              \* connect calls for the target constructed, in order
  queryOn,    \* per scrape, target and collector, the pool of every
              \* connection.request().query(...) call made for the collector
  observed,   \* per scrape, target and collector, the results its query
              \* settled with, in order
  issued,     \* per scrape and target, the collectors in the order in which
              \* their queries were issued
  logs        \* per scrape and target, the log entries written for the target

vars ==
  <<store, served, hstate, idx, conn, meas, rendered, writes, closeCalls,
    overwritten, pool, queryOn, observed, issued, logs>>

\* --------------------------------------------------------------- operations
\* a field that a log entry does not carry
NotLogged == "-"

\* appLog(`Error handling /metrics request for server '${server}'`, error) in
\* the catch block of the handler
logConnectError(server) ==
  [channel |-> "app", message |-> "Error handling /metrics request",
   server |-> server, name |-> NotLogged, error |-> TRUE]

\* the console.error call of measure, by how the measure ended: the message
\* names the collector, and the error is passed when there is one
measureLog(name, status) ==
  CASE status = "error" ->
         {[channel |-> "stderr", message |-> "Error executing metric",
           server |-> NotLogged, name |-> name, error |-> TRUE]}
    [] status = "threw" ->
         {[channel |-> "stderr", message |-> "Error processing metric",
           server |-> NotLogged, name |-> name, error |-> TRUE]}
    [] status = "empty" ->
         {[channel |-> "stderr", message |-> "No results executing metric",
           server |-> NotLogged, name |-> name, error |-> FALSE]}
    [] OTHER -> {}

\* mutant of collectLoop: the catalogue is walked from its last entry
collectLoopReversed(es) == [i \in 1..Len(es) |-> es[Len(es) + 1 - i]]

\* for (const [metricName, metric] of Object.entries(entries)) in collect:
\* measure is called, and issues its query, for the entries in their order
collectLoop(es) == es

\* mutant of collectTasks: only the first entry of the catalogue is measured
collectTasksFirstOnly == {entries[1]}

\* collect: a measure task is started for every entry of the catalogue
collectTasks == Collectors

InCollectTasks(c) == c \in collectTasks

\* mutant of connectCatch: a target that is down has all its gauges zeroed
connectCatchZeroAll(host) ==
  << <<<<"mssql_up", host>>, 0>>,
     <<<<"mssql_page_read_total", host>>, 0>>,
     <<<<"mssql_page_write_total", host>>, 0>> >>

\* mutant of connectCatch: the failure is logged and nothing is set
connectCatchNoSet(host) == <<>>

\* the catch block of the handler: mssqlUp.set({ host: server }, 0)
connectCatch(host) == << <<<<"mssql_up", host>>, 0>> >>

\* mutant of measure: an empty result zeroes the gauges of the collector
measureZeroOnEmpty(c, r, host) ==
  IF r.err THEN [status |-> "error", sets |-> <<>>]
  ELSE IF Len(r.recordset) > 0
       THEN LET calls == collectorCollect(c, r.recordset, host)
            IN  [status |-> IF Throws(calls) THEN "threw" ELSE "ok",
                 sets |-> Applied(calls)]
       ELSE [status |-> "empty",
             sets |-> collectorCollect(c, <<[i \in 1..5 |-> 0]>>, host)]

\* measure: what the then/catch handlers of one query do with its result:
\* status is how the measure ended, sets the gauge.set calls that took effect
measure(c, r, host) ==
  IF r.err THEN [status |-> "error", sets |-> <<>>]
  ELSE IF Len(r.recordset) > 0
       THEN LET calls == collectorCollect(c, r.recordset, host)
            IN  [status |-> IF Throws(calls) THEN "threw" ELSE "ok",
                 sets |-> Applied(calls)]
       ELSE [status |-> "empty", sets |-> <<>>]

\* mutant of measureResolves: the catch handler of the query forgets resolve()
measureResolvesNotOnError(status) == status # "error"

\* measure calls resolve() on every path: rows, no rows, query error
measureResolves(status) == TRUE

Settled == {"ok", "empty", "error", "threw"}

\* mutant of collectSettled: collect awaits the measure of the first entry
collectSettledFirst(ms) == ms[entries[1]] \in Settled

\* mutant of collectSettled: collect resolves with the first measure
collectSettledAny(ms) == \E c \in collectTasks : ms[c] \in Settled

\* await Promise.all(tasks) in collect: every measure promise has resolved
collectSettled(ms) == \A c \in collectTasks : ms[c] \in Settled

\* mutant of collectFinally: the connection is not closed
collectFinallyNoClose(calls) == calls

\* .finally(async () => await connection.close()): one call of close
collectFinally(calls) == calls + 1

\* the promise pushed on tasks for a target, by the state of its connection:
\* collect(...).finally(close) settles as close settles
taskState(cs) ==
  CASE cs \in {"open", "closing"} -> "pending"
    [] cs = "closed" -> "fulfilled"
    [] cs = "closeFailed" -> "rejected"
    [] OTHER -> "none"

\* mutant of promiseAll: the tasks are not awaited
promiseAllNoWait(ts) == IF "rejected" \in ts THEN "rejected" ELSE "fulfilled"

\* Promise.all over the states of the pushed tasks
promiseAll(ts) ==
  IF "rejected" \in ts THEN "rejected"
  ELSE IF "pending" \in ts THEN "pending"
  ELSE "fulfilled"

\* mutant of afterLoop: the handler stops waiting for tasks that are pending
\* and sends its response
afterLoopTimeout(cn) ==
  LET p == promiseAll({taskState(cn[t]) : t \in Targets} \ {"none"})
  IN  CASE p = "rejected" -> "threw"
        [] OTHER -> "sent"

\* await Promise.all(tasks); res.send(client.register.metrics()): where the
\* handler of a scrape stands once its loop is over, given its connections
afterLoop(cn) ==
  LET p == promiseAll({taskState(cn[t]) : t \in Targets} \ {"none"})
  IN  CASE p = "fulfilled" -> "sent"
        [] p = "rejected" -> "threw"
        [] OTHER -> "awaitAll"

\* mutant of newPool: connect hands out one pool per target, whichever
\* invocation asks (a pool cached by configuration)
newPoolShared(s, t) == <<0, t>>

\* new sql.ConnectionPool(connectionConfig) in connect: an object that no
\* other call returns, named by the invocation and the target it is made for
newPool(s, t) == <<s, t>>

\* mutant of LoopStep: a failed connect is attempted again
LoopStepRetry(s, t, cn, st) ==
  IF cn[t] = "failed"
  THEN /\ idx' = idx
       /\ conn' = [conn EXCEPT ![s] = [cn EXCEPT ![t] = "connecting"]]
       /\ pool' = [pool EXCEPT ![s][t] = Append(@, newPool(s, t))]
       /\ hstate' = hstate
       /\ rendered' = rendered
  ELSE IF t < Len(connectStrings)
  THEN /\ idx' = [idx EXCEPT ![s] = t + 1]
       /\ conn' = [conn EXCEPT ![s] = [cn EXCEPT ![t + 1] = "connecting"]]
       /\ pool' = [pool EXCEPT ![s][t + 1] = Append(@, newPool(s, t + 1))]
       /\ hstate' = hstate
       /\ rendered' = rendered
  ELSE /\ idx' = idx
       /\ conn' = [conn EXCEPT ![s] = cn]
       /\ pool' = pool
       /\ hstate' = [hstate EXCEPT ![s] = afterLoop(cn)]
       /\ rendered' = IF afterLoop(cn) = "sent"
                      THEN [rendered EXCEPT ![s] = st]
                      ELSE rendered

\* the handler after the try/catch of target t: the next iteration calls
\* connect for the next target, the end of the loop awaits the tasks
LoopStep(s, t, cn, st) ==
  IF t < Len(connectStrings)
  THEN /\ idx' = [idx EXCEPT ![s] = t + 1]
       /\ conn' = [conn EXCEPT ![s] = [cn EXCEPT ![t + 1] = "connecting"]]
       /\ pool' = [pool EXCEPT ![s][t + 1] = Append(@, newPool(s, t + 1))]
       /\ hstate' = hstate
       /\ rendered' = rendered
  ELSE /\ idx' = idx
       /\ conn' = [conn EXCEPT ![s] = cn]
       /\ pool' = pool
       /\ hstate' = [hstate EXCEPT ![s] = afterLoop(cn)]
       /\ rendered' = IF afterLoop(cn) = "sent"
                      THEN [rendered EXCEPT ![s] = st]
                      ELSE rendered

\* a handler invocation is over: it has sent its response or thrown, and no
\* operation it started is still pending
Over(s) ==
  /\ hstate[s] \in {"idle", "sent", "threw"}
  /\ \A t \in Targets : conn[s][t] \notin {"connecting", "open", "closing"}

NoConn == [t \in Targets |-> "none"]
NoMeas == [t \in Targets |-> [c \in Collectors |-> "idle"]]
NoWrites == [t \in Targets |-> {}]
NoCalls == [t \in Targets |-> 0]
NoPool == [t \in Targets |-> <<>>]
NoQuery == [t \in Targets |-> [c \in Collectors |-> <<>>]]
NoIssue == [t \in Targets |-> <<>>]
NoLogs == [t \in Targets |-> {}]

Init ==
  /\ store = EmptyStore
  /\ served = 0
  /\ hstate = [s \in Scrapes |-> "idle"]
  /\ idx = [s \in Scrapes |-> 1]
  /\ conn = [s \in Scrapes |-> NoConn]
  /\ meas = [s \in Scrapes |-> NoMeas]
  /\ rendered = [s \in Scrapes |-> EmptyStore]
  /\ writes = [s \in Scrapes |-> NoWrites]
  /\ closeCalls = [s \in Scrapes |-> NoCalls]
  /\ overwritten = [s \in Scrapes |-> {}]
  /\ pool = [s \in Scrapes |-> NoPool]
  /\ queryOn = [s \in Scrapes |-> NoQuery]
  /\ observed = [s \in Scrapes |-> NoQuery]
  /\ issued = [s \in Scrapes |-> NoIssue]
  /\ logs = [s \in Scrapes |-> NoLogs]

\* mutant of Request: the handler resets the register before it scrapes
RequestReset(s) ==
  /\ served' = served + 1
  /\ hstate' = [hstate EXCEPT ![s] = "loop"]
  /\ idx' = [idx EXCEPT ![s] = 1]
  /\ conn' = [conn EXCEPT ![s] = [NoConn EXCEPT ![1] = "connecting"]]
  /\ meas' = [meas EXCEPT ![s] = NoMeas]
  /\ rendered' = [rendered EXCEPT ![s] = EmptyStore]
  /\ writes' = [writes EXCEPT ![s] = NoWrites]
  /\ closeCalls' = [closeCalls EXCEPT ![s] = NoCalls]
  /\ overwritten' = [overwritten EXCEPT ![s] = {}]
  /\ pool' = [pool EXCEPT ![s] = [NoPool EXCEPT ![1] = <<newPool(s, 1)>>]]
  /\ queryOn' = [queryOn EXCEPT ![s] = NoQuery]
  /\ observed' = [observed EXCEPT ![s] = NoQuery]
  /\ issued' = [issued EXCEPT ![s] = NoIssue]
  /\ logs' = [logs EXCEPT ![s] = NoLogs]
  /\ store' = EmptyStore

\* GET /metrics: a new handler invocation s runs up to its first
\* await connect(...)
Request(s) ==
  /\ served' = served + 1
  /\ hstate' = [hstate EXCEPT ![s] = "loop"]
  /\ idx' = [idx EXCEPT ![s] = 1]
  /\ conn' = [conn EXCEPT ![s] = [NoConn EXCEPT ![1] = "connecting"]]
  /\ meas' = [meas EXCEPT ![s] = NoMeas]
  /\ rendered' = [rendered EXCEPT ![s] = EmptyStore]
  /\ writes' = [writes EXCEPT ![s] = NoWrites]
  /\ closeCalls' = [closeCalls EXCEPT ![s] = NoCalls]
  /\ overwritten' = [overwritten EXCEPT ![s] = {}]
  /\ pool' = [pool EXCEPT ![s] = [NoPool EXCEPT ![1] = <<newPool(s, 1)>>]]
  /\ queryOn' = [queryOn EXCEPT ![s] = NoQuery]
  /\ observed' = [observed EXCEPT ![s] = NoQuery]
  /\ issued' = [issued EXCEPT ![s] = NoIssue]
  /\ logs' = [logs EXCEPT ![s] = NoLogs]
  /\ UNCHANGED store

\* a request that arrives when no invocation is running
MetricsRequest(s) ==
  /\ served < MaxScrapes
  /\ \A p \in Scrapes : Over(p) /\ s <= p
  /\ Request(s)

\* a request that arrives while another invocation may be running
ConcurrentRequest(s) ==
  /\ hstate[s] = "idle"
  /\ \A p \in Scrapes : p < s => hstate[p] # "idle"
  /\ Request(s)

\* pool.connect() resolves: collect issues the query of every collector, the
\* task is pushed and the loop goes on
ConnectResolved(s) ==
  /\ hstate[s] = "loop"
  /\ conn[s][idx[s]] = "connecting"
  /\ LET t == idx[s]
     IN  /\ meas' = [meas EXCEPT ![s][t] =
                       [c \in Collectors |->
                          IF c \in collectTasks THEN "pending" ELSE "idle"]]
         /\ queryOn' = [queryOn EXCEPT ![s][t] =
                          [c \in Collectors |->
                             IF c \in collectTasks
                             THEN Append(@[c], pool[s][t][Len(pool[s][t])])
                             ELSE @[c]]]
         /\ issued' = [issued EXCEPT ![s][t] =
                         collectLoop(SelectSeq(entries, InCollectTasks))]
         /\ LoopStep(s, t, [conn[s] EXCEPT ![t] = "open"], store)
  /\ UNCHANGED <<store, served, writes, closeCalls, overwritten, observed,
                 logs>>

\* pool.connect() rejects: the catch block sets mssql_up to 0, the loop goes on
ConnectRejected(s) ==
  /\ hstate[s] = "loop"
  /\ conn[s][idx[s]] = "connecting"
  /\ LET t == idx[s]
         sets == connectCatch(connectStrings[t])
         st == SetAll(store, sets)
     IN  /\ store' = st
         /\ writes' = [writes EXCEPT ![s][t] =
                         @ \cup {sets[i] : i \in 1..Len(sets)}]
         /\ logs' = [logs EXCEPT ![s][t] =
                       @ \cup {logConnectError(connectStrings[t])}]
         /\ LoopStep(s, t, [conn[s] EXCEPT ![t] = "failed"], st)
  /\ UNCHANGED <<served, meas, closeCalls, overwritten, queryOn, observed,
                 issued>>

\* the query of collector c on the connection of target t settles with
\* result r: measure maps the rows and resolves; when it is the last measure
\* of the target, collect resolves and the finally handler calls
\* connection.close()
QuerySettled(s, t, c, r) ==
  /\ conn[s][t] = "open"
  /\ meas[s][t][c] = "pending"
  /\ LET m == measure(c, r, connectStrings[t])
         ms == [meas[s][t] EXCEPT ![c] =
                  IF measureResolves(m.status) THEN m.status ELSE "hung"]
     IN  /\ store' = SetAll(store, m.sets)
         /\ writes' = [writes EXCEPT ![s][t] =
                         @ \cup {m.sets[i] : i \in 1..Len(m.sets)}]
         /\ meas' = [meas EXCEPT ![s][t] = ms]
         /\ observed' = [observed EXCEPT ![s][t][c] = Append(@, r)]
         /\ logs' = [logs EXCEPT ![s][t] = @ \cup measureLog(c, m.status)]
         /\ overwritten' =
              [p \in Scrapes |->
                 IF p # s /\ hstate[p] \in {"loop", "awaitAll"}
                 THEN overwritten[p] \cup
                        {u \in Targets :
                           /\ conn[p][u] = "failed"
                           /\ \E i \in 1..Len(m.sets) :
                                m.sets[i][1] = <<"mssql_up", connectStrings[u]>>}
                 ELSE overwritten[p]]
         /\ IF collectSettled(ms)
            THEN /\ conn' = [conn EXCEPT ![s][t] = "closing"]
                 /\ closeCalls' = [closeCalls EXCEPT ![s][t] = collectFinally(@)]
            ELSE UNCHANGED <<conn, closeCalls>>
  /\ UNCHANGED <<served, hstate, idx, rendered, pool, queryOn, issued>>

\* connection.close() settles, ok or not; a handler that awaits
\* Promise.all(tasks) goes on when that promise settles
CloseSettled(s, t, ok) ==
  /\ conn[s][t] = "closing"
  /\ LET cn == [conn[s] EXCEPT ![t] = IF ok THEN "closed" ELSE "closeFailed"]
     IN  /\ conn' = [conn EXCEPT ![s] = cn]
         /\ IF hstate[s] = "awaitAll"
            THEN /\ hstate' = [hstate EXCEPT ![s] = afterLoop(cn)]
                 /\ rendered' = IF afterLoop(cn) = "sent"
                                THEN [rendered EXCEPT ![s] = store]
                                ELSE rendered
            ELSE UNCHANGED <<hstate, rendered>>
  /\ UNCHANGED <<store, served, idx, meas, writes, closeCalls, overwritten,
                 pool, queryOn, observed, issued, logs>>

\* every settling of an operation the driver has pending
Settle ==
  \/ \E s \in Scrapes : ConnectResolved(s)
  \/ \E s \in Scrapes : ConnectRejected(s)
  \/ \E s \in Scrapes, t \in Targets, c \in Collectors :
       \E r \in QueryResults(c) : QuerySettled(s, t, c, r)
  \/ \E s \in Scrapes, t \in Targets : \E ok \in BOOLEAN : CloseSettled(s, t, ok)

\* requests are served one at a time: the next one arrives when the
\* invocation before it is over
Next ==
  \/ \E s \in Scrapes : MetricsRequest(s)
  \/ Settle

Spec == Init /\ [][Next]_vars

\* the first request after startup
FirstRequest(s) == served = 0 /\ MetricsRequest(s)

NextFirst ==
  \/ \E s \in Scrapes : FirstRequest(s)
  \/ Settle

\* one request, and the driver settles every operation it has pending
FairSpec == Init /\ [][NextFirst]_vars /\ WF_vars(Settle)

\* the settling of the queries and of the close of target t
SettleOf(t) ==
  \/ \E s \in Scrapes, c \in Collectors :
       \E r \in QueryResults(c) : QuerySettled(s, t, c, r)
  \/ \E s \in Scrapes : \E ok \in BOOLEAN : CloseSettled(s, t, ok)

\* one request; the driver settles what is pending on the last target, while
\* an operation on another target may stay pending for ever
SpecHang == Init /\ [][NextFirst]_vars /\ WF_vars(SettleOf(Len(connectStrings)))

\* the results of a query that is answered with well-formed rows or fails
RowsOrError(c) ==
  {r \in QueryResults(c) :
     r.err \/ (Len(r.recordset) > 0
                /\ ~Throws(collectorCollect(c, r.recordset, connectStrings[1])))}

\* two requests, the second of which may arrive while the first is being
\* served; queries fail or return well-formed rows and every close succeeds
NextOverlap ==
  \/ \E s \in Scrapes : ConcurrentRequest(s)
  \/ \E s \in Scrapes : ConnectResolved(s)
  \/ \E s \in Scrapes : ConnectRejected(s)
  \/ \E s \in Scrapes, t \in Targets, c \in Collectors :
       \E r \in RowsOrError(c) : QuerySettled(s, t, c, r)
  \/ \E s \in Scrapes, t \in Targets : CloseSettled(s, t, TRUE)

SpecOverlap == Init /\ [][NextOverlap]_vars

\* a request that arrives after the invocations before it are over, served by
\* an invocation of its own
RepeatedRequest(s) ==
  /\ hstate[s] = "idle"
  /\ \A p \in Scrapes : p < s => (hstate[p] # "idle" /\ Over(p))
  /\ Request(s)

NextRepeat ==
  \/ \E s \in Scrapes : RepeatedRequest(s)
  \/ \E s \in Scrapes : ConnectResolved(s)
  \/ \E s \in Scrapes, t \in Targets, c \in Collectors :
       \E r \in RowsOrError(c) : QuerySettled(s, t, c, r)
  \/ \E s \in Scrapes, t \in Targets : CloseSettled(s, t, TRUE)

\* one scrape after another of targets that are available, each invocation
\* keeping the record of what it observed; queries fail or return
\* well-formed rows and every close succeeds
SpecRepeat == Init /\ [][NextRepeat]_vars

\* the results of a query that returns at least one row, all cells numbers
WellFormedRows(c) ==
  {r \in QueryResults(c) :
     /\ ~r.err
     /\ Len(r.recordset) > 0
     /\ \A i \in 1..Len(r.recordset) :
          \A j \in 1..Len(r.recordset[i]) : IsNumber(r.recordset[i][j])}

\* ConnectResolved with the larger catalogue: collect starts a measure for
\* each of its collectors
CatalogueConnectResolved(s) ==
  /\ hstate[s] = "loop"
  /\ conn[s][idx[s]] = "connecting"
  /\ LET t == idx[s]
     IN  /\ meas' = [meas EXCEPT ![s][t] =
                       [c \in CatalogueCollectors |-> "pending"]]
         /\ queryOn' = [queryOn EXCEPT ![s][t] =
                          [c \in CatalogueCollectors |->
                             <<pool[s][t][Len(pool[s][t])]>>]]
         /\ observed' = [observed EXCEPT ![s][t] =
                           [c \in CatalogueCollectors |-> <<>>]]
         /\ issued' = [issued EXCEPT ![s][t] = collectLoop(catalogue)]
         /\ LoopStep(s, t, [conn[s] EXCEPT ![t] = "open"], store)
  /\ UNCHANGED <<store, served, writes, closeCalls, overwritten, logs>>

\* QuerySettled with the larger catalogue
CatalogueQuerySettled(s, t, c, r) ==
  /\ conn[s][t] = "open"
  /\ meas[s][t][c] = "pending"
  /\ LET m == measure(c, r, connectStrings[t])
         ms == [meas[s][t] EXCEPT ![c] =
                  IF measureResolves(m.status) THEN m.status ELSE "hung"]
     IN  /\ store' = SetAll(store, m.sets)
         /\ writes' = [writes EXCEPT ![s][t] =
                         @ \cup {m.sets[i] : i \in 1..Len(m.sets)}]
         /\ meas' = [meas EXCEPT ![s][t] = ms]
         /\ observed' = [observed EXCEPT ![s][t][c] = Append(@, r)]
         /\ logs' = [logs EXCEPT ![s][t] = @ \cup measureLog(c, m.status)]
         /\ IF \A d \in CatalogueCollectors : ms[d] \in Settled
            THEN /\ conn' = [conn EXCEPT ![s][t] = "closing"]
                 /\ closeCalls' = [closeCalls EXCEPT ![s][t] = collectFinally(@)]
            ELSE UNCHANGED <<conn, closeCalls>>
  /\ UNCHANGED <<served, hstate, idx, rendered, pool, queryOn, overwritten,
                 issued>>

NextCatalogue ==
  \/ \E s \in Scrapes : FirstRequest(s)
  \/ \E s \in Scrapes : CatalogueConnectResolved(s)
  \/ \E s \in Scrapes, t \in Targets, c \in CatalogueCollectors :
       \E r \in WellFormedRows(c) : CatalogueQuerySettled(s, t, c, r)
  \/ \E s \in Scrapes, t \in Targets : CloseSettled(s, t, TRUE)

\* one scrape with the larger catalogue: every target is reachable, every
\* query returns a row of numbers and every close succeeds
SpecCatalogue == Init /\ [][NextCatalogue]_vars

\* ================================================================== claims
\* the series mssql_up{host = server of target t}
UpKey(t) == <<"mssql_up", connectStrings[t]>>

\* the connection of target t opened in scrape s
Opened(s, t) == conn[s][t] \in {"open", "closing", "closed", "closeFailed"}

\* the series the branch of target t has written in scrape s
Written(s, t) == {w[1] : w \in writes[s][t]}

\* the series of the gauges of collector c for target t
SeriesOf(c, t) == {<<g, connectStrings[t]>> : g \in metrics(c)}

\* C1: in the response of every completed scrape, every configured target has
\* a sample of mssql_up and its value is 0 or 1.
C1_UpZeroOrOneForEveryTarget ==
  \A s \in Scrapes :
    hstate[s] = "sent" =>
      \A t \in Targets :
        Has(rendered[s], UpKey(t)) /\ rendered[s][UpKey(t)] \in {0, 1}

\* C2: a failed connect to target t makes one store write, mssql_up{host=t} = 0,
\* and leaves every other series as it was; the branch of t writes nothing
\* else and issues no query, and in the first scrape after startup only
\* mssql_up carries the host of t.
C2_FailedConnectStep ==
  \A s \in Scrapes, t \in Targets :
    (conn[s][t] = "connecting" /\ conn'[s][t] = "failed") =>
      /\ store' = SetValue(store, UpKey(t), 0)
      /\ \A k \in DOMAIN store : k # UpKey(t) => store'[k] = store[k]

C2_FailedConnectState ==
  \A s \in Scrapes, t \in Targets :
    conn[s][t] = "failed" =>
      /\ writes[s][t] = {<<UpKey(t), 0>>}
      /\ \A c \in Collectors : meas[s][t][c] = "idle"
      /\ served = 1 =>
           \A k \in DOMAIN store : k[2] = connectStrings[t] => k[1] = "mssql_up"

C2_FailedConnectWritesOnlyUpZero ==
  []C2_FailedConnectState /\ [][C2_FailedConnectStep]_vars

\* C2 witness: a connect failed in a scrape that has sent its response, while
\* the store holds an older value of another gauge for that host
C2_Witness ==
  \E s \in Scrapes, t \in Targets :
    /\ conn[s][t] = "failed"
    /\ hstate[s] = "sent"
    /\ Has(store, <<"mssql_page_read_total", connectStrings[t]>>)

\* C3: in the response of a scrape whose connection to target t opened,
\* mssql_up{host=t} is 1.
C3_UpOneWhenConnected ==
  \A s \in Scrapes, t \in Targets :
    (hstate[s] = "sent" /\ Opened(s, t)) =>
      (Has(rendered[s], UpKey(t)) /\ rendered[s][UpKey(t)] = 1)

C5_ThrowLeavesNoPartialWrite ==
  \A s \in Scrapes, t \in Targets, c \in Collectors :
    meas[s][t][c] = "threw" => SeriesOf(c, t) \cap Written(s, t) = {}

\* C6: when every operation settles, a request is answered unless a close
\* failed, and the handler throws only when a close failed.
C6_Answered ==
  \A s \in Scrapes :
    hstate[s] \in {"loop", "awaitAll"} ~>
      (hstate[s] = "sent" \/ \E t \in Targets : conn[s][t] = "closeFailed")

C6_NoErrorEscapes ==
  \A s \in Scrapes :
    hstate[s] = "threw" => \E t \in Targets : conn[s][t] = "closeFailed"

C6_ResponseAlwaysSent == C6_Answered /\ []C6_NoErrorEscapes

\* C6 witness: a response was sent by a scrape with a failed connect and with
\* a failed query, an empty result or a failed mapping
C6_Witness ==
  \E s \in Scrapes :
    /\ hstate[s] = "sent"
    /\ conn[s][1] = "failed"
    /\ meas[s][2]["mssql_up"] = "error"
    /\ meas[s][2]["mssql_buffer_manager"] \in {"empty", "threw"}

\* C7 as stated: the response of a scrape in which every connect failed
\* reports mssql_up = 0 for every target.
C7_AllDownRendersZero ==
  \A s \in Scrapes :
    (hstate[s] = "sent" /\ \A t \in Targets : conn[s][t] = "failed") =>
      \A t \in Targets :
        Has(rendered[s], UpKey(t)) /\ rendered[s][UpKey(t)] = 0

\* C7 amended: a scrape in which every connect failed completes, writes
\* mssql_up = 0 for every target and nothing else, and its response reports
\* mssql_up = 0 for every target whose series no overlapping scrape has set
\* in between (for such a target it reports the value that scrape set, 1).
C7_AllDownWritesZero ==
  \A s \in Scrapes :
    (hstate[s] # "loop" /\ \A t \in Targets : conn[s][t] = "failed") =>
      /\ hstate[s] = "sent"
      /\ \A t \in Targets :
           /\ writes[s][t] = {<<UpKey(t), 0>>}
           /\ Has(rendered[s], UpKey(t))
           /\ rendered[s][UpKey(t)] = IF t \in overwritten[s] THEN 1 ELSE 0

\* C7 witness: every connect failed, the response reports 0 for every target
\* and still carries a value an earlier scrape wrote
C7_Witness ==
  \E s \in Scrapes :
    /\ hstate[s] = "sent"
    /\ \A t \in Targets : conn[s][t] = "failed" /\ rendered[s][UpKey(t)] = 0
    /\ \E t \in Targets :
         Has(rendered[s], <<"mssql_page_read_total", connectStrings[t]>>)

\* C8: a close that fails does not make the handler throw.
C8_CloseFailureDoesNotPropagate ==
  \A s \in Scrapes :
    (\E t \in Targets : conn[s][t] = "closeFailed") => hstate[s] # "threw"

\* C9: close is called once on every connection whose collectors have all
\* settled, however they settled, never twice, and never on a connection that
\* did not open; a scrape that has answered has closed what it opened.
C9_CloseExactlyOnce ==
  \A s \in Scrapes, t \in Targets :
    /\ closeCalls[s][t] <= 1
    /\ ~Opened(s, t) => closeCalls[s][t] = 0
    /\ (Opened(s, t) /\ \A c \in Collectors : meas[s][t][c] \in Settled)
         => closeCalls[s][t] = 1
    /\ (Opened(s, t) /\ hstate[s] = "sent") => closeCalls[s][t] = 1

\* C9 witness: a connection whose collectors all failed was closed once
C9_Witness ==
  \E s \in Scrapes, t \in Targets :
    /\ conn[s][t] = "closed"
    /\ meas[s][t]["mssql_up"] = "error"
    /\ meas[s][t]["mssql_buffer_manager"] = "threw"
    /\ closeCalls[s][t] = 1

\* C10: when a response has been sent, every connection the scrape opened has
\* all its collectors settled and its close settled, and the scrape makes no
\* store write afterwards.
C10_SentState ==
  \A s \in Scrapes :
    hstate[s] = "sent" =>
      \A t \in Targets :
        Opened(s, t) =>
          /\ \A c \in Collectors : meas[s][t][c] \in Settled
          /\ conn[s][t] \in {"closed", "closeFailed"}

C10_SentStep ==
  \A s \in Scrapes :
    (hstate[s] = "sent" /\ hstate'[s] = "sent") => writes'[s] = writes[s]

C10_ResponseAfterAllSettled == []C10_SentState /\ [][C10_SentStep]_vars

\* C10 witness: a response sent after two connections were used and closed
C10_Witness ==
  \E s \in Scrapes :
    /\ hstate[s] = "sent"
    /\ \A t \in Targets : conn[s][t] = "closed" /\ writes[s][t] # {}

\* the result of a query that returned no row
EmptyResult == [err |-> FALSE, recordset |-> <<>>]

\* C11: when the query of a collector returns no row for target t, the step
\* that handles the result leaves the store as it was, the collector has
\* written none of its series in this scrape, and it counts as settled: once
\* its siblings have settled too, close has been called on the connection.
C11_EmptyStep ==
  \A s \in Scrapes, t \in Targets, c \in Collectors :
    (meas[s][t][c] = "pending" /\ observed'[s][t][c] = <<EmptyResult>>) =>
      /\ store' = store
      /\ writes'[s] = writes[s]
      /\ meas'[s][t][c] \in Settled

C11_EmptyState ==
  \A s \in Scrapes, t \in Targets, c \in Collectors :
    observed[s][t][c] = <<EmptyResult>> =>
      /\ meas[s][t][c] = "empty"
      /\ SeriesOf(c, t) \cap Written(s, t) = {}
      /\ (\A d \in Collectors : meas[s][t][d] \in Settled) =>
           (closeCalls[s][t] = 1 /\ conn[s][t] # "open")

C11_EmptyResultChangesNothing == []C11_EmptyState /\ [][C11_EmptyStep]_vars

\* C11 witness: a query returned no row in a scrape that has answered; the
\* sibling wrote its value, the connection is closed, and the store still
\* holds the value an earlier scrape wrote for a gauge of the collector
C11_Witness ==
  \E s \in Scrapes, t \in Targets :
    /\ hstate[s] = "sent"
    /\ observed[s][t]["mssql_buffer_manager"] = <<EmptyResult>>
    /\ meas[s][t]["mssql_up"] = "ok"
    /\ conn[s][t] = "closed"
    /\ Has(store, <<"mssql_page_read_total", connectStrings[t]>>)
    /\ store[<<"mssql_page_read_total", connectStrings[t]>>] = 2

\* the set calls the mapping function of collector c makes for target t from
\* the rows that scrape s observed, when it observed rows
RowWrites(s, t, c) ==
  IF observed[s][t][c] # <<>> /\ ~observed[s][t][c][1].err
       /\ Len(observed[s][t][c][1].recordset) > 0
  THEN LET calls == collectorCollect(c, observed[s][t][c][1].recordset,
                                     connectStrings[t])
       IN  {calls[i] : i \in 1..Len(calls)}
  ELSE {}

\* C12: with two overlapping scrapes, every stored value is the value that a
\* scrape's mapping function derived for that series from a row the scrape
\* observed, or the 0 a failed connect set for mssql_up; and the series of
\* one collector for one target either all carry the values of one scrape's
\* row (no write is visible half applied) or, for mssql_up, that 0.
C12_Provenance ==
  \A k \in DOMAIN store :
    \/ \E s \in Scrapes, t \in Targets, c \in Collectors :
         <<k, store[k]>> \in RowWrites(s, t, c)
    \/ \E s \in Scrapes, t \in Targets :
         k = UpKey(t) /\ store[k] = 0 /\ conn[s][t] = "failed"

C12_WholeWrites ==
  \A t \in Targets, c \in Collectors :
    \/ SeriesOf(c, t) \cap DOMAIN store = {}
    \/ \E s \in Scrapes :
         /\ {w[1] : w \in RowWrites(s, t, c)} = SeriesOf(c, t)
         /\ \A w \in RowWrites(s, t, c) : Has(store, w[1]) /\ store[w[1]] = w[2]
    \/ \E s \in Scrapes :
         c = "mssql_up" /\ store[UpKey(t)] = 0 /\ conn[s][t] = "failed"

FullyAvailable(s) ==
  hstate[s] = "sent" /\ \A t \in Targets : conn[s][t] = "closed"

\* C13: when a second scrape that ran after a first one found every target
\* available, as the first did, and its queries settled with the same results,
\* its response is the response of the first scrape and the store is as the
\* first scrape left it.
C13_SecondScrapeIdempotent ==
  (FullyAvailable(1) /\ FullyAvailable(2) /\ observed[2] = observed[1]) =>
    (rendered[2] = rendered[1] /\ store = rendered[1])

\* C13 witness: two scrapes with the same rows for every collector of every
\* target, and the same response
C13_Witness ==
  /\ FullyAvailable(1) /\ FullyAvailable(2)
  /\ observed[2] = observed[1]
  /\ \A t \in Targets, c \in Collectors : meas[2][t][c] = "ok"
  /\ rendered[2] = rendered[1]
  /\ rendered[2][<<"mssql_page_read_total", connectStrings[1]>>] = 2

\* C14: within one scrape connect is called once for every target; after a
\* failed connect no query is issued and close is not called for the target,
\* and the target stays failed until the next request; after a successful
\* connect the query of every collector is issued once, and a collector that
\* has settled, with an error or an empty result too, stays settled.
C14_State ==
  \A s \in Scrapes, t \in Targets :
    /\ Len(pool[s][t]) = IF conn[s][t] = "none" THEN 0 ELSE 1
    /\ hstate[s] \in {"awaitAll", "sent", "threw"} => Len(pool[s][t]) = 1
    /\ conn[s][t] = "failed" =>
         /\ closeCalls[s][t] = 0
         /\ \A c \in Collectors :
              queryOn[s][t][c] = <<>> /\ meas[s][t][c] = "idle"
    /\ Opened(s, t) => \A c \in Collectors : Len(queryOn[s][t][c]) = 1
    /\ \A c \in Collectors :
         meas[s][t][c] \in Settled =>
           (Len(queryOn[s][t][c]) = 1 /\ Len(observed[s][t][c]) = 1)

C14_Step ==
  \A s \in Scrapes, t \in Targets :
    served' = served =>
      /\ conn[s][t] = "failed" => conn'[s][t] = "failed"
      /\ \A c \in Collectors :
           meas[s][t][c] \in Settled => meas'[s][t][c] = meas[s][t][c]

C14_OneAttemptNoRetry == []C14_State /\ [][C14_Step]_vars

\* C14 witness: a scrape has answered after a failed connect to one target
\* and, on the other, a failed query and an empty result
C14_Witness ==
  \E s \in Scrapes :
    /\ hstate[s] = "sent"
    /\ conn[s][1] = "failed" /\ conn[s][2] = "closed"
    /\ meas[s][2]["mssql_up"] = "error"
    /\ meas[s][2]["mssql_buffer_manager"] = "empty"
    /\ \A t \in Targets : Len(pool[s][t]) = 1
    /\ \A c \in Collectors : Len(queryOn[s][2][c]) = 1

\* the pools that scrape s constructed for target t
PoolsOf(s, t) == {pool[s][t][i] : i \in 1..Len(pool[s][t])}

\* C15: every query is issued on the pool that the connect call of the same
\* scrape for the same target returned; no pool is used by two scrapes or for
\* two targets, overlapping scrapes included; and when a scrape has sent its
\* response, every connection it opened is closed.
C15_ConnectionsNotShared ==
  /\ \A s \in Scrapes, t \in Targets, c \in Collectors :
       queryOn[s][t][c] # <<>> =>
         /\ Opened(s, t)
         /\ \A i \in 1..Len(queryOn[s][t][c]) :
              queryOn[s][t][c][i] = pool[s][t][Len(pool[s][t])]
  /\ \A s, p \in Scrapes, t, u \in Targets :
       (s # p \/ t # u) => PoolsOf(s, t) \cap PoolsOf(p, u) = {}
  /\ \A s \in Scrapes, t \in Targets :
       (hstate[s] = "sent" /\ Opened(s, t)) => conn[s][t] = "closed"

\* C15 witness: two scrapes have a connection open to the same target at the
\* same time, each with its queries in flight on its own pool, after the
\* first scrape has closed its connection to the other target
C15_Witness ==
  /\ conn[1][2] = "open" /\ conn[2][2] = "open"
  /\ conn[1][1] = "closed"
  /\ \A c \in Collectors :
       /\ meas[1][2][c] = "pending" /\ meas[2][2][c] = "pending"
       /\ queryOn[1][2][c] # queryOn[2][2][c]

\* C16: the response of a scrape in which every target was reachable and
\* every query returned a row of numbers reports mssql_up = 1 for every
\* target and has a sample with the host of the target for every gauge that a
\* collector of the catalogue declares.
C16_EveryInstrumentHasASample ==
  \A s \in Scrapes :
    FullyAvailable(s) =>
      \A t \in Targets :
        /\ Has(rendered[s], UpKey(t)) /\ rendered[s][UpKey(t)] = 1
        /\ \A c \in CatalogueCollectors : \A k \in SeriesOf(c, t) :
             Has(rendered[s], k)

\* the collectors that map the first cell of the first row to one gauge
\* labelled with the host
FirstCellCollectors == {"mssql_up", "mssql_deadlocks"}

\* C17: when a scrape has connected to target t and the query of a collector
\* that maps the first cell returned the rows [[v]], the response of the
\* scrape holds the gauge of the collector with the host of t and the value v.
C17_FirstCellReachesSnapshot ==
  \A s \in Scrapes, t \in Targets, c \in FirstCellCollectors :
    (/\ hstate[s] = "sent" /\ Opened(s, t)
     /\ observed[s][t][c] # <<>>
     /\ ~observed[s][t][c][1].err
     /\ Len(observed[s][t][c][1].recordset) > 0) =>
      \A g \in metrics(c) :
        /\ Has(rendered[s], <<g, connectStrings[t]>>)
        /\ rendered[s][<<g, connectStrings[t]>>]
             = observed[s][t][c][1].recordset[1][1]

\* C17 witness: a response with mssql_deadlocks = 2 for one host and 1 for
\* the other, as the rows [[2]] and [[1]] said
C17_Witness ==
  \E s \in Scrapes :
    /\ hstate[s] = "sent"
    /\ observed[s][1]["mssql_deadlocks"][1].recordset = << <<2>> >>
    /\ observed[s][2]["mssql_deadlocks"][1].recordset = << <<1>> >>
    /\ rendered[s][<<"mssql_deadlocks", connectStrings[1]>>] = 2
    /\ rendered[s][<<"mssql_deadlocks", connectStrings[2]>>] = 1
    /\ rendered[s][UpKey(1)] = 1

\* C18: for a connected target, the query of another collector is issued, and
\* another collector writes to the store, only after mssql_up of the target
\* has been written in the scrape.
C18_UpRecordedFirst ==
  \A s \in Scrapes, t \in Targets :
    \A c \in Collectors \ {"mssql_up"} :
      (queryOn[s][t][c] # <<>> \/ SeriesOf(c, t) \cap Written(s, t) # {}) =>
        UpKey(t) \in Written(s, t)

\* C19: the connect attempts of the targets of a scrape are all under way
\* together: none waits for the connect of another target to settle.
C19_ConnectsStartTogether ==
  \A s \in Scrapes :
    hstate[s] = "loop" => \A t \in Targets : conn[s][t] # "none"

\* C20: close is called on the connection of a target only once every
\* collector of the target has settled, and no query is issued or in flight
\* on a connection whose close has been called.
C20_State ==
  \A s \in Scrapes, t \in Targets :
    (closeCalls[s][t] > 0 \/ conn[s][t] \in {"closing", "closed", "closeFailed"})
      => \A c \in Collectors : meas[s][t][c] \in Settled

C20_Step ==
  \A s \in Scrapes, t \in Targets :
    served' = served =>
      /\ closeCalls'[s][t] > closeCalls[s][t] =>
           \A c \in Collectors : meas'[s][t][c] \in Settled
      /\ queryOn'[s][t] # queryOn[s][t] =>
           (conn'[s][t] = "open" /\ closeCalls'[s][t] = 0)

C20_CloseAfterCollectors == []C20_State /\ [][C20_Step]_vars

\* C20 witness: close has been called and has not settled, after one
\* collector wrote its value and the other one's query failed
C20_Witness ==
  \E s \in Scrapes, t \in Targets :
    /\ conn[s][t] = "closing"
    /\ closeCalls[s][t] = 1
    /\ meas[s][t]["mssql_up"] = "ok"
    /\ meas[s][t]["mssql_buffer_manager"] = "error"

C22_FailedConnectRendersZero ==
  \A s \in Scrapes, t \in Targets :
    (hstate[s] = "sent" /\ conn[s][t] = "failed") =>
      (Has(rendered[s], UpKey(t)) /\ rendered[s][UpKey(t)] = 0)

\* C22 amended: the response of a scrape in which the connect to target t
\* failed reports mssql_up{host=t} = 0 unless the availability collector of
\* an overlapping scrape, which did connect to t, set the series between the
\* failed connect and the response; then it reports the 1 that collector set.
C22_FailedConnectRendersLastWrite ==
  \A s \in Scrapes, t \in Targets :
    (hstate[s] = "sent" /\ conn[s][t] = "failed") =>
      /\ Has(rendered[s], UpKey(t))
      /\ rendered[s][UpKey(t)] = IF t \in overwritten[s] THEN 1 ELSE 0
      /\ t \in overwritten[s] =>
           \E p \in Scrapes \ {s} : meas[p][t]["mssql_up"] = "ok"

\* C22 witness: a scrape whose connect to a target failed has answered with
\* mssql_up = 1 for it, set by the other scrape, and 0 for the other target
C22_Witness ==
  \E s \in Scrapes, t, u \in Targets :
    /\ hstate[s] = "sent"
    /\ conn[s][t] = "failed" /\ conn[s][u] = "failed"
    /\ t \in overwritten[s] /\ u \notin overwritten[s]
    /\ rendered[s][UpKey(t)] = 1
    /\ rendered[s][UpKey(u)] = 0

\* C23: the queries of a connected target are issued in the order of the
\* catalogue, mssql_up first, all in the step that follows the connect, when
\* the scrape has written nothing for the target yet; no query is issued for
\* a target that is not connected.
C23_State ==
  \A s \in Scrapes, t \in Targets :
    issued[s][t] = IF Opened(s, t) THEN entries ELSE <<>>

C23_Step ==
  \A s \in Scrapes, t \in Targets :
    (served' = served /\ issued'[s][t] # issued[s][t]) =>
      /\ issued[s][t] = <<>>
      /\ Len(issued'[s][t]) = Len(entries)
      /\ issued'[s][t][1] = "mssql_up"
      /\ conn[s][t] = "connecting"
      /\ writes'[s][t] = {}
      /\ \A c \in Collectors : meas'[s][t][c] = "pending"

C24_PendingQueryHolds ==
  \A s \in Scrapes, t \in Targets :
    (\E c \in Collectors : meas[s][t][c] = "pending") =>
      /\ hstate[s] # "sent"
      /\ conn[s][t] = "open"
      /\ closeCalls[s][t] = 0

C24_OtherTargetProceeds ==
  \A s \in Scrapes :
    conn[s][Len(connectStrings)] = "open" ~>
      /\ conn[s][Len(connectStrings)] \in {"closed", "closeFailed"}
      /\ \A c \in Collectors :
           meas[s][Len(connectStrings)][c] \in {"ok", "empty", "error", "threw"}

C24_NoTimeoutNoPreemption == []C24_PendingQueryHolds /\ C24_OtherTargetProceeds

\* C24 witness: a query of the first target is still pending, the handler
\* awaits its tasks, and the last target is done and closed
C24_Witness ==
  \E s \in Scrapes :
    /\ hstate[s] = "awaitAll"
    /\ conn[s][1] = "open"
    /\ meas[s][1]["mssql_buffer_manager"] = "pending"
    /\ meas[s][1]["mssql_up"] = "ok"
    /\ conn[s][2] = "closed"
    /\ \A c \in Collectors : meas[s][2][c] = "ok"

\* C25: for every collector whose mapping function a scrape has called, the
\* set call the function has for each of its gauges passes exactly the label
\* names the gauge declares.
C25_SetCallsSupplyDeclaredLabels ==
  \A s \in Scrapes, t \in Targets :
    \A c \in DOMAIN meas[s][t] :
      meas[s][t][c] \in {"ok", "threw"} =>
        \A g \in metrics(c) : setLabels(c, g) = labelNames(g)

\* C26: no step removes a series from the store, and a series changes its
\* value only in a step in which a scrape writes the new value to it: a
\* request, a failed connect and a query without rows leave every other series
\* as it was.
C26_Step ==
  \A k \in DOMAIN store :
    /\ k \in DOMAIN store'
    /\ store'[k] # store[k] =>
         \E s \in Scrapes, t \in Targets : <<k, store'[k]>> \in writes'[s][t]

C26_SeriesPersist == [][C26_Step]_vars

\* a later scrape could not connect to a target whose series of an earlier
\* scrape are still in the store
C26_Witness ==
  /\ served = 2
  /\ \E s \in Scrapes, t \in Targets :
       /\ conn[s][t] = "failed"
       /\ Has(store, <<"mssql_lazy_write_total", connectStrings[t]>>)
       /\ store[UpKey(t)] = 0

\* C27: every write a scrape makes for target t is to a series whose host
\* label is the server of t, and a step in which a series is created or
\* changes its value is a step of the branch of the target the series is
\* labelled with: its connect fails or one of its queries settles.
C27_WritesCarryOwnHost ==
  \A s \in Scrapes, t \in Targets :
    \A w \in writes[s][t] : w[1][2] = connectStrings[t]

C27_Step ==
  \A k \in DOMAIN store' :
    (k \notin DOMAIN store \/ store'[k] # store[k]) =>
      \E s \in Scrapes, t \in Targets :
        /\ k[2] = connectStrings[t]
        /\ \/ conn[s][t] = "connecting" /\ conn'[s][t] = "failed"
           \/ \E c \in Collectors :
                meas[s][t][c] = "pending" /\ meas'[s][t][c] # "pending"

C27_NoWriteToOtherHost == []C27_WritesCarryOwnHost /\ [][C27_Step]_vars

\* one scrape has written for both targets, on the failure path for one and
\* through the collectors for the other
C27_Witness ==
  \E s \in Scrapes, t, u \in Targets :
    /\ t # u
    /\ connectStrings[t] # connectStrings[u]
    /\ conn[s][t] = "failed"
    /\ writes[s][t] # {}
    /\ meas[s][u]["mssql_up"] = "ok"
    /\ meas[s][u]["mssql_buffer_manager"] = "ok"

\* C28: a step in which the availability collector of target t ends well
\* leaves mssql_up{host=t} at the first cell of the result of its query, which
\* is not 0; and mssql_up{host=t} becomes 0 only in a step in which a connect
\* to t fails.  So a series that reads 0 was last written by a failed connect.
C28_Step ==
  \A t \in Targets :
    /\ \A s \in Scrapes :
         (meas[s][t]["mssql_up"] = "pending" /\ meas'[s][t]["mssql_up"] = "ok") =>
           LET seen == observed'[s][t]["mssql_up"]
               cell == seen[Len(seen)].recordset[1][1]
           IN  /\ Has(store', UpKey(t))
               /\ store'[UpKey(t)] = cell
               /\ cell # 0
    /\ ( /\ Has(store', UpKey(t))
         /\ store'[UpKey(t)] = 0
         /\ ~(Has(store, UpKey(t)) /\ store[UpKey(t)] = 0) ) =>
           \E s \in Scrapes :
             conn[s][t] = "connecting" /\ conn'[s][t] = "failed"

C28_ZeroOnlyFromFailedConnect == [][C28_Step]_vars

\* a response after a failed connect to one target and a successful
\* availability query on the other
C28_Witness ==
  \E s \in Scrapes, t, u \in Targets :
    /\ hstate[s] = "sent"
    /\ conn[s][t] = "failed"
    /\ Has(store, UpKey(t)) /\ store[UpKey(t)] = 0
    /\ meas[s][u]["mssql_up"] = "ok"
    /\ Has(store, UpKey(u)) /\ store[UpKey(u)] = 1

\* C29: every connect failure of a scrape has a log entry with the server of
\* the target and the error, and every query failure and mapping failure has a
\* log entry with the server of the target, the name of the collector and the
\* error.
C29_FailuresLoggedWithContext ==
  \A s \in Scrapes, t \in Targets :
    /\ conn[s][t] = "failed" =>
         \E e \in logs[s][t] : e.server = connectStrings[t] /\ e.error
    /\ \A c \in Collectors :
         meas[s][t][c] \in {"error", "threw"} =>
           \E e \in logs[s][t] :
             e.server = connectStrings[t] /\ e.name = c /\ e.error

\* C30: on every connection at most one query is in flight: the query of a
\* collector is issued only after the measure of the collector before it in the
\* catalogue has settled.
C30_OneQueryInFlight ==
  \A s \in Scrapes, t \in Targets :
    /\ Cardinality({c \in Collectors : meas[s][t][c] = "pending"}) <= 1
    /\ \A i \in 2..Len(issued[s][t]) :
         meas[s][t][issued[s][t][i]] = "pending" =>
           meas[s][t][issued[s][t][i - 1]] \in Settled

====
